---- MODULE Spec2Model ----
(***************************************************************************)
(* Theme variable registry, length-unit conversion, margin-aware dimension *)
(* formatting and the style resolution pass of styled-native               *)
(* (src/src/theme.tsx, src/src/formatValues.ts).                           *)
(*                                                                         *)
(* JavaScript strings are sequences of one-character strings, JavaScript   *)
(* values are records [t, n, s] with t in {"num","nan","str","undef"}.     *)
(***************************************************************************)
EXTENDS Integers, Sequences, FiniteSets, TLC

VARIABLES
    \* ---- the process-wide registry (theme.tsx:101-106)
    currentColorId,   \* let currentColorId = 1
    hexForVarName,    \* themeVariables.hexForVarName : name -> placeholder
    nameForHex,       \* themeVariables.nameForHex : placeholder -> name without sigil
    hashCount,        \* number of tokens hashGenerate() has handed out
    \* ---- resolver calls (theme.tsx:108-140); one frame per caller
    pc,               \* position of each caller inside the resolver
    variant,          \* which resolver the caller is in: "lengs" or "color"
    variableName,     \* argument variableName
    fallback,         \* argument fallback, by truthiness
    hash,             \* local const hash
    result,           \* value returned by the caller's last call
    interleaved,      \* a resolver step ran while another call was in progress
    \* ---- one call of resolveLengthUnit / formatValue
    fnArgs,           \* the arguments of the call
    fnOut,            \* its outcome
    fnDone,           \* the call has been made
    \* ---- one pass of resolveThemeVariables (theme.tsx:186-263)
    styleObject,      \* the style object, mutated in place
    styleKeys,        \* the keys the for-in loop visits, in order
    idx,              \* index of the next key to visit
    theme,            \* the theme
    windowDimensions, \* the viewport
    plattformIsWeb,   \* Platform.OS === 'web'
    phase,            \* "loop", "margins", "done" or "failed"
    error,            \* the message of the Error thrown
    recomputed,       \* the body of the margin if (theme.tsx:254-260) ran
    original          \* the style object as passed in

registryVars == <<currentColorId, hexForVarName, nameForHex, hashCount>>
callVars == <<pc, variant, variableName, fallback, hash, result, interleaved>>
fnVars == <<fnArgs, fnOut, fnDone>>
passVars == <<styleObject, styleKeys, idx, theme, windowDimensions, plattformIsWeb,
              phase, error, recomputed, original>>
vars == <<registryVars, callVars, fnVars, passVars>>

----------------------------------------------------------------------------
(* JavaScript values *)

Num(i) == [t |-> "num", n |-> i, s |-> <<>>]
NaN == [t |-> "nan", n |-> 0, s |-> <<>>]
Str(cs) == [t |-> "str", n |-> 0, s |-> cs]
Undefined == [t |-> "undef", n |-> 0, s |-> <<>>]
\* A value that is neither a primitive number nor a string (a plain object).
Obj == [t |-> "obj", n |-> 0, s |-> <<>>]

IsNum(v) == v.t = "num"
IsStr(v) == v.t = "str"

\* ToBoolean: undefined, 0, NaN and '' are falsy.
Truthy(v) ==
    CASE v.t = "num" -> v.n # 0
      [] v.t = "str" -> v.s # <<>>
      [] v.t = "obj" -> TRUE
      [] OTHER -> FALSE

DigitChars == <<"0", "1", "2", "3", "4", "5", "6", "7", "8", "9">>
LowerHexChars == DigitChars \o <<"a", "b", "c", "d", "e", "f">>

IsDigit(c) == \E d \in 1..10 : DigitChars[d] = c
DigitValue(c) == (CHOOSE d \in 1..10 : DigitChars[d] = c) - 1
IsSpace(c) == c = " "

\* Number.prototype.toString(radix) of a non-negative integer.
RECURSIVE NatToString(_, _)
NatToString(n, radix) ==
    IF n < radix THEN <<LowerHexChars[n + 1]>>
    ELSE NatToString(n \div radix, radix) \o <<LowerHexChars[(n % radix) + 1]>>

\* String(value) of a number: decimal digits, a leading '-' when negative, 'NaN'.
NumberToString(v) ==
    CASE v.t = "nan" -> <<"N", "a", "N">>
      [] v.n < 0 -> <<"-">> \o NatToString(-v.n, 10)
      [] OTHER -> NatToString(v.n, 10)

\* String(value) of any value.
ToStr(v) ==
    CASE v.t = "str" -> v.s
      [] v.t = "undef" -> <<"u", "n", "d", "e", "f", "i", "n", "e", "d">>
      [] v.t = "obj" -> <<"[", "o", "b", "j", "e", "c", "t", " ", "O", "b", "j", "e", "c", "t", "]">>
      [] OTHER -> NumberToString(v)

UpperChar(c) ==
    CASE c = "a" -> "A" [] c = "b" -> "B" [] c = "c" -> "C"
      [] c = "d" -> "D" [] c = "e" -> "E" [] c = "f" -> "F"
      [] OTHER -> c

\* String.prototype.toUpperCase
ToUpperCase(cs) == [i \in 1..Len(cs) |-> UpperChar(cs[i])]

\* String.prototype.padStart(targetLength, padChar)
RECURSIVE PadStart(_, _, _)
PadStart(cs, targetLength, c) ==
    IF Len(cs) >= targetLength THEN cs ELSE PadStart(<<c>> \o cs, targetLength, c)

\* String.prototype.trim
RECURSIVE TrimStart(_)
TrimStart(cs) == IF cs # <<>> /\ IsSpace(Head(cs)) THEN TrimStart(Tail(cs)) ELSE cs
RECURSIVE TrimEnd(_)
TrimEnd(cs) ==
    IF cs # <<>> /\ IsSpace(cs[Len(cs)]) THEN TrimEnd(SubSeq(cs, 1, Len(cs) - 1)) ELSE cs
Trim(cs) == TrimEnd(TrimStart(cs))

\* String.prototype.replace(pattern, '') with a string pattern: the first
\* occurrence of pattern is removed, the string is unchanged when there is none.
IsAt(cs, pat, i) == i + Len(pat) - 1 <= Len(cs) /\ SubSeq(cs, i, i + Len(pat) - 1) = pat
RemoveFirst(cs, pat) ==
    IF \E i \in 1..(Len(cs) + 1) : IsAt(cs, pat, i)
    THEN LET i == CHOOSE k \in 1..(Len(cs) + 1) :
                      IsAt(cs, pat, k) /\ \A j \in 1..(k - 1) : ~IsAt(cs, pat, j)
         IN SubSeq(cs, 1, i - 1) \o SubSeq(cs, i + Len(pat), Len(cs))
    ELSE cs

\* The longest prefix of decimal digits.
RECURSIVE DigitPrefix(_)
DigitPrefix(cs) ==
    IF cs # <<>> /\ IsDigit(Head(cs)) THEN <<Head(cs)>> \o DigitPrefix(Tail(cs)) ELSE <<>>

RECURSIVE DigitsValue(_, _)
DigitsValue(ds, acc) ==
    IF ds = <<>> THEN acc ELSE DigitsValue(Tail(ds), 10 * acc + DigitValue(Head(ds)))

\* Number.parseFloat of a string: leading white space, an optional sign, then
\* decimal digits; NaN when no digit follows.  (Inputs carry no '.', exponent
\* digits or 'Infinity'; -0 is 0.)
ParseFloatChars(cs) ==
    LET body == TrimStart(cs)
        signed == body # <<>> /\ Head(body) \in {"-", "+"}
        rest == IF signed THEN Tail(body) ELSE body
        ds == DigitPrefix(rest)
    IN IF ds = <<>> THEN NaN
       ELSE IF signed /\ Head(body) = "-" THEN Num(-DigitsValue(ds, 0))
       ELSE Num(DigitsValue(ds, 0))

\* Number.parseFloat(value): the argument is converted to a string first.
ParseFloat(v) == ParseFloatChars(ToStr(v))

\* ToNumber: the whole trimmed string must be a numeric literal; '' is 0.
ToNumber(v) ==
    CASE v.t \in {"undef", "obj"} -> NaN
      [] v.t = "str" ->
            LET body == Trim(v.s)
                unsigned == IF body # <<>> /\ Head(body) \in {"-", "+"} THEN Tail(body) ELSE body
            IN IF body = <<>> THEN Num(0)
               ELSE IF unsigned # <<>> /\ DigitPrefix(unsigned) = unsigned
                    THEN ParseFloatChars(body)
               ELSE NaN
      [] OTHER -> v

\* a + b: string concatenation when either operand is a string, else numeric.
JsAdd(a, b) ==
    IF IsStr(a) \/ IsStr(b) THEN Str(ToStr(a) \o ToStr(b))
    ELSE LET x == ToNumber(a)
             y == ToNumber(b)
         IN IF IsNum(x) /\ IsNum(y) THEN Num(x.n + y.n) ELSE NaN

JsSub(a, b) ==
    LET x == ToNumber(a)
        y == ToNumber(b)
    IN IF IsNum(x) /\ IsNum(y) THEN Num(x.n - y.n) ELSE NaN

JsMul(a, b) ==
    LET x == ToNumber(a)
        y == ToNumber(b)
    IN IF IsNum(x) /\ IsNum(y) THEN Num(x.n * y.n) ELSE NaN

\* a / b.  The viewports and margins drawn keep every quotient integral; a
\* zero divisor gives NaN or an infinity, which no input here produces.
JsDiv(a, b) ==
    LET x == ToNumber(a)
        y == ToNumber(b)
    IN IF IsNum(x) /\ IsNum(y) /\ y.n # 0
       THEN (IF x.n >= 0 THEN Num(x.n \div y.n) ELSE Num(-((-x.n) \div y.n)))
       ELSE NaN

\* a <= b on a number and a number-or-string: false when either side is NaN.
JsLe(a, b) ==
    LET x == ToNumber(a)
        y == ToNumber(b)
    IN IsNum(x) /\ IsNum(y) /\ x.n <= y.n

\* ToInt32: NaN is 0; an integer of the model is its own 32-bit two's complement value.
ToInt32(v) ==
    LET x == ToNumber(v)
    IN IF IsNum(x) THEN x.n ELSE 0

\* Bitwise and of two's complement integers, bit by bit (\div floors, % is non-negative).
RECURSIVE BitAndInt(_, _)
BitAndInt(x, y) ==
    IF x = 0 \/ y = 0 THEN 0
    ELSE IF x = -1 THEN y
    ELSE IF y = -1 THEN x
    ELSE (x % 2) * (y % 2) + 2 * BitAndInt(x \div 2, y \div 2)

\* a & b
JsBitAnd(a, b) == Num(BitAndInt(ToInt32(a), ToInt32(b)))

----------------------------------------------------------------------------
(* The variable registry and the two placeholder resolvers *)

\* The callers of the resolvers.
Procs == {1, 2}

\* Most variables registered before the first modelled call.
MaxPreRegistered == 16
\* Most tokens hashGenerate() hands out in one behaviour.
MaxHashes == 3
\* Largest value of currentColorId a color placeholder is allocated from.
MaxColorId == 19

\* Variable names the modelled calls resolve: two share the text after the sigil.
VarNames == {<<"$", "a">>, <<"$", "b">>, <<"@", "a">>}

\* The i-th variable registered before the modelled calls: '$v<i>'.
PreName(i) == <<"$", "v">> \o NatToString(i, 10)

EmptyMap == [x \in {} |-> <<>>]

\* Map.prototype.has
Has(m, k) == k \in DOMAIN m

\* Map.prototype.set: a new key is added, the value of an existing key is overwritten.
MapSet(m, k, v) == [x \in DOMAIN m \cup {k} |-> IF x = k THEN v ELSE m[x]]

\* variableName.substring(1)
Substring1(cs) == IF cs = <<>> THEN <<>> ELSE Tail(cs)

\* hashGenerate(): a fresh opaque token on every call.  Length placeholders are
\* looked up as `${value}px` (theme.tsx:226): the token is a number followed by px.
HashGenerate(count) == <<"7", "7">> \o NatToString(count + 1, 10) \o <<"p", "x">>

\* `#${id.toString(16).padStart(6, '0').toUpperCase()}00`
ColorHash(id) ==
    <<"#">> \o ToUpperCase(PadStart(NatToString(id, 16), 6, "0")) \o <<"0", "0">>

\* A counter that is read but not advanced.
NextColorIdStuck(id) == id

\* currentColorId++ : the value the counter holds afterwards.
NextColorId(id) == id + 1

\* A guard that allocates on every call.
UnseenAlways(name) == TRUE

\* The test guarding the allocation: !themeVariables.hexForVarName.has(variableName)
Unseen(name) == ~Has(hexForVarName, name)

\* The value both resolvers return: `${varOne} ${varTwo}` under a truthy
\* fallback, else the registered placeholder; read from the map at return time.
ReturnValue(m, name, fb) ==
    IF fb THEN m[name] \o <<" ">> \o m[name] ELSE m[name]

\* The registry after n sequential calls resolveColorVariablePlaceholder('$v<i>').
RECURSIVE PreHex(_)
PreHex(n) == IF n = 0 THEN EmptyMap ELSE MapSet(PreHex(n - 1), PreName(n), ColorHash(n))
RECURSIVE PreRev(_)
PreRev(n) ==
    IF n = 0 THEN EmptyMap ELSE MapSet(PreRev(n - 1), ColorHash(n), Substring1(PreName(n)))

NoCalls ==
    /\ pc = [p \in Procs |-> "idle"]
    /\ variant = [p \in Procs |-> "none"]
    /\ variableName = [p \in Procs |-> <<>>]
    /\ fallback = [p \in Procs |-> FALSE]
    /\ hash = [p \in Procs |-> <<>>]
    /\ result = [p \in Procs |-> <<>>]
    /\ interleaved = FALSE

NoFn ==
    /\ fnArgs = <<>>
    /\ fnOut = <<>>
    /\ fnDone = FALSE

NoPass ==
    /\ styleObject = <<>>
    /\ styleKeys = <<>>
    /\ idx = 0
    /\ theme = <<>>
    /\ windowDimensions = <<>>
    /\ plattformIsWeb = FALSE
    /\ phase = "none"
    /\ error = <<>>
    /\ recomputed = FALSE
    /\ original = <<>>

\* The registry after construction and some earlier color registrations.
RegistryInit ==
    /\ \E n \in 0..MaxPreRegistered :
          /\ currentColorId = n + 1
          /\ hexForVarName = PreHex(n)
          /\ nameForHex = PreRev(n)
    /\ hashCount = 0
    /\ NoCalls
    /\ NoFn
    /\ NoPass

\* resolverLengsVariables(variableName, fallback), run to completion.
ResolverLengsVariables(p, name, fb) ==
    LET fresh == Unseen(name)
        h == HashGenerate(hashCount)
        hex == IF fresh THEN MapSet(hexForVarName, name, h) ELSE hexForVarName
    IN /\ fresh => hashCount < MaxHashes
       /\ hexForVarName' = hex
       /\ nameForHex' = IF fresh THEN MapSet(nameForHex, h, Substring1(name)) ELSE nameForHex
       /\ hashCount' = IF fresh THEN hashCount + 1 ELSE hashCount
       /\ hash' = [hash EXCEPT ![p] = IF fresh THEN h ELSE <<>>]
       /\ variant' = [variant EXCEPT ![p] = "lengs"]
       /\ variableName' = [variableName EXCEPT ![p] = name]
       /\ fallback' = [fallback EXCEPT ![p] = fb]
       /\ result' = [result EXCEPT ![p] = ReturnValue(hex, name, fb)]
       /\ UNCHANGED <<currentColorId, pc, interleaved, fnVars, passVars>>

\* resolveColorVariablePlaceholder(variableName, fallback), run to completion.
ResolveColorVariablePlaceholder(p, name, fb) ==
    LET fresh == Unseen(name)
        h == ColorHash(currentColorId)
        hex == IF fresh THEN MapSet(hexForVarName, name, h) ELSE hexForVarName
    IN /\ fresh => currentColorId <= MaxColorId
       /\ currentColorId' = IF fresh THEN NextColorId(currentColorId) ELSE currentColorId
       /\ hexForVarName' = hex
       /\ nameForHex' = IF fresh THEN MapSet(nameForHex, h, Substring1(name)) ELSE nameForHex
       /\ hash' = [hash EXCEPT ![p] = IF fresh THEN h ELSE <<>>]
       /\ variant' = [variant EXCEPT ![p] = "color"]
       /\ variableName' = [variableName EXCEPT ![p] = name]
       /\ fallback' = [fallback EXCEPT ![p] = fb]
       /\ result' = [result EXCEPT ![p] = ReturnValue(hex, name, fb)]
       /\ UNCHANGED <<hashCount, pc, interleaved, fnVars, passVars>>

\* With run-to-completion calls one caller frame holds the call just made.
SeqCallers == {1}

RegistryNext ==
    \E p \in SeqCallers, name \in VarNames, fb \in BOOLEAN :
        \/ ResolverLengsVariables(p, name, fb)
        \/ ResolveColorVariablePlaceholder(p, name, fb)

\* Resolver calls, each run to completion before the next starts.
SpecRegistry == RegistryInit /\ [][RegistryNext]_vars

----------------------------------------------------------------------------
(* The resolvers statement by statement, for callers that run in parallel *)

RaceInit ==
    /\ currentColorId = 1
    /\ hexForVarName = EmptyMap
    /\ nameForHex = EmptyMap
    /\ hashCount = 0
    /\ NoCalls
    /\ NoFn
    /\ NoPass

\* Another caller is inside a resolver while p takes a step.
Overlaps(p) == \E q \in Procs \ {p} : pc[q] # "idle"

Step(p, to) ==
    /\ pc' = [pc EXCEPT ![p] = to]
    /\ interleaved' = (interleaved \/ Overlaps(p))

\* A caller enters resolverLengsVariables or resolveColorVariablePlaceholder.
Call(p, v, name, fb) ==
    /\ pc[p] = "idle"
    /\ Step(p, "has")
    /\ variant' = [variant EXCEPT ![p] = v]
    /\ variableName' = [variableName EXCEPT ![p] = name]
    /\ fallback' = [fallback EXCEPT ![p] = fb]
    /\ hash' = [hash EXCEPT ![p] = <<>>]
    /\ result' = [result EXCEPT ![p] = <<>>]
    /\ UNCHANGED <<registryVars, fnVars, passVars>>

\* if (!themeVariables.hexForVarName.has(variableName))
HasCheck(p) ==
    /\ pc[p] = "has"
    /\ Step(p, IF Unseen(variableName[p]) THEN "hash" ELSE "return")
    /\ UNCHANGED <<registryVars, variant, variableName, fallback, hash, result,
                   fnVars, passVars>>

\* const hash = hashGenerate()
GenerateHash(p) ==
    /\ pc[p] = "hash"
    /\ variant[p] = "lengs"
    /\ hashCount < 2 * MaxHashes
    /\ Step(p, "setHex")
    /\ hash' = [hash EXCEPT ![p] = HashGenerate(hashCount)]
    /\ hashCount' = hashCount + 1
    /\ UNCHANGED <<currentColorId, hexForVarName, nameForHex, variant, variableName,
                   fallback, result, fnVars, passVars>>

\* const hash = `#${(currentColorId++)...}00`
GenerateColorHash(p) ==
    /\ pc[p] = "hash"
    /\ variant[p] = "color"
    /\ currentColorId <= MaxColorId
    /\ Step(p, "setHex")
    /\ hash' = [hash EXCEPT ![p] = ColorHash(currentColorId)]
    /\ currentColorId' = NextColorId(currentColorId)
    /\ UNCHANGED <<hashCount, hexForVarName, nameForHex, variant, variableName,
                   fallback, result, fnVars, passVars>>

\* themeVariables.hexForVarName.set(variableName, hash)
SetHexForVarName(p) ==
    /\ pc[p] = "setHex"
    /\ Step(p, "setName")
    /\ hexForVarName' = MapSet(hexForVarName, variableName[p], hash[p])
    /\ UNCHANGED <<currentColorId, nameForHex, hashCount, variant, variableName,
                   fallback, hash, result, fnVars, passVars>>

\* themeVariables.nameForHex.set(hash, variableName.substring(1))
SetNameForHex(p) ==
    /\ pc[p] = "setName"
    /\ Step(p, "return")
    /\ nameForHex' = MapSet(nameForHex, hash[p], Substring1(variableName[p]))
    /\ UNCHANGED <<currentColorId, hexForVarName, hashCount, variant, variableName,
                   fallback, hash, result, fnVars, passVars>>

\* if (fallback) return `${varOne} ${varTwo}`; return hexForVarName.get(variableName)
Return(p) ==
    /\ pc[p] = "return"
    /\ Step(p, "idle")
    /\ result' = [result EXCEPT
                    ![p] = ReturnValue(hexForVarName, variableName[p], fallback[p])]
    /\ UNCHANGED <<registryVars, variant, variableName, fallback, hash, fnVars, passVars>>

\* Names resolved by the parallel callers.
RaceNames == {<<"$", "a">>, <<"@", "a">>}

RaceNext ==
    \E p \in Procs :
        \/ \E v \in {"lengs", "color"}, name \in RaceNames, fb \in BOOLEAN : Call(p, v, name, fb)
        \/ HasCheck(p)
        \/ GenerateHash(p)
        \/ GenerateColorHash(p)
        \/ SetHexForVarName(p)
        \/ SetNameForHex(p)
        \/ Return(p)

\* Resolver calls whose statements interleave freely.
SpecRace == RaceInit /\ [][RaceNext]_vars

----------------------------------------------------------------------------
(* Claims about the registry *)

\* p's frame holds the value a finished call returned.
Returned(p) == pc[p] = "idle" /\ result[p] # <<>>

\* C1 (as claimed): once a name has a placeholder, every later resolution of
\* that name, through either resolver and with or without a fallback, returns
\* that same placeholder, and hexForVarName[name] is never overwritten.
C1_AsClaimed ==
    [][\A n \in DOMAIN hexForVarName :
          /\ n \in DOMAIN hexForVarName' /\ hexForVarName'[n] = hexForVarName[n]
          /\ \A p \in Procs :
                (variableName'[p] = n /\ result'[p] # <<>>)
                    => result'[p] = hexForVarName[n]]_vars

\* C1 (amended): once a name has a placeholder, hexForVarName[name] is never
\* overwritten, and every later resolution of that name through either resolver
\* returns that same placeholder when the fallback is falsy and the placeholder,
\* a space and the placeholder again when the fallback is truthy.
C1_Idempotent ==
    [][\A n \in DOMAIN hexForVarName :
          /\ n \in DOMAIN hexForVarName' /\ hexForVarName'[n] = hexForVarName[n]
          /\ \A p \in Procs :
                (variableName'[p] = n /\ result'[p] # <<>>)
                    => result'[p] = IF fallback'[p]
                                    THEN hexForVarName[n] \o <<" ">> \o hexForVarName[n]
                                    ELSE hexForVarName[n]]_vars

\* C1 witness: a name registered by one resolver has been resolved again by the
\* other one, with a fallback, and the caller holds the paired placeholder.
C1_Witness ==
    \E p \in Procs :
        /\ Returned(p) /\ fallback[p] /\ hash[p] = <<>>
        /\ variant[p] = "color"
        /\ \E k \in 1..MaxHashes : hexForVarName[variableName[p]] = HashGenerate(k - 1)
        /\ result[p] = hexForVarName[variableName[p]] \o <<" ">> \o hexForVarName[variableName[p]]

\* C2: no two distinct variable names are mapped to the same placeholder.
C2_Injective ==
    \A n1 \in DOMAIN hexForVarName, n2 \in DOMAIN hexForVarName :
        n1 # n2 => hexForVarName[n1] # hexForVarName[n2]

\* C2 witness: all modelled names are registered, through both resolvers, next
\* to sixteen earlier color registrations (hex digits beyond 9 and a second digit).
C2_Witness ==
    /\ VarNames \subseteq DOMAIN hexForVarName
    /\ hashCount >= 1
    /\ currentColorId >= 18
    /\ Cardinality(DOMAIN hexForVarName) >= 19

\* Two finished or running calls hold two distinct placeholders, both entered in
\* the reverse registry, that they allocated for one and the same name.
TwoPlaceholdersForOneName ==
    \E p \in Procs, q \in Procs :
        /\ p # q
        /\ variableName[p] = variableName[q]
        /\ hash[p] # <<>> /\ hash[q] # <<>> /\ hash[p] # hash[q]
        /\ hash[p] \in DOMAIN nameForHex /\ nameForHex[hash[p]] = Substring1(variableName[p])
        /\ hash[q] \in DOMAIN nameForHex /\ nameForHex[hash[q]] = Substring1(variableName[q])

\* A caller holds a returned placeholder that differs from hexForVarName[name].
StalePlaceholderHeld ==
    \E p \in Procs :
        /\ Returned(p)
        /\ result[p] # ReturnValue(hexForVarName, variableName[p], fallback[p])

\* C3: as long as every resolver call has run to completion before the next one
\* started, each name has one placeholder allocated for it: the reverse registry
\* has no more entries than the forward one, no two callers hold different
\* placeholders allocated for one name, and every caller holds the placeholder
\* hexForVarName gives.  Only interleaved calls produce two placeholders for one name.
C3_OnePlaceholderUnlessInterleaved ==
    ~interleaved =>
        /\ Cardinality(DOMAIN nameForHex) <= Cardinality(DOMAIN hexForVarName)
        /\ ~TwoPlaceholdersForOneName
        /\ ~StalePlaceholderHeld

\* C3 witness: two first resolutions of one unseen name interleaved between the
\* has-check and the writes; two placeholders are allocated for it, the reverse
\* registry names it twice, and a caller holds a placeholder that differs from
\* hexForVarName[name].
C3_Witness ==
    /\ interleaved
    /\ TwoPlaceholdersForOneName
    /\ StalePlaceholderHeld
    /\ Cardinality(DOMAIN nameForHex) > Cardinality(DOMAIN hexForVarName)

----------------------------------------------------------------------------
(* resolveLengthUnit (theme.tsx:145-170) *)

\* What a call does: it returns a value or throws an Error.
Returns(v) == [ok |-> TRUE, v |-> v, err |-> "none"]
Throws(e) == [ok |-> FALSE, v |-> Undefined, err |-> e]

UnitRem == <<"r", "e", "m">>
UnitPx == <<"p", "x">>
UnitPercent == <<"%">>
UnitVw == <<"v", "w">>
UnitVh == <<"v", "h">>

\* The fallback of `value * theme.rem || 8`.
DefaultRem == 8

\* case 'rem': return value * theme.rem || 8  -- the product, or 8 when it is falsy.
RemCase(value, rem) ==
    LET product == JsMul(value, rem)
    IN IF Truthy(product) THEN product ELSE Num(DefaultRem)

\* A default case that returns the string instead of throwing.
UnknownUnitCaseLenient(str) == Returns(str)

\* default: throw new Error(`cannot parse length string '${str}', unknown unit '${unit}'`)
UnknownUnitCase(str) == Throws("unknown unit")

\* str.trim().replace(String(value), '')
UnitText(str, value) == RemoveFirst(Trim(str.s), ToStr(value))

ResolveLengthUnit(str, rem, dims) ==
    IF ~Truthy(str) \/ str.t \in {"num", "nan"} THEN Returns(str)
    ELSE IF ~IsStr(str) THEN Throws("expected a string")
    ELSE LET value == ParseFloat(str)
             unit == UnitText(str, value)
         IN IF value = Num(0) THEN Returns(Num(0))
            ELSE IF unit = <<>> THEN Throws("no unit")
            ELSE CASE unit = UnitRem -> Returns(RemCase(value, rem))
                   [] unit = UnitPx -> Returns(value)
                   [] unit = UnitPercent -> Returns(str)
                   [] unit = UnitVw -> Returns(JsDiv(JsMul(value, dims.width), Num(100)))
                   [] unit = UnitVh -> Returns(JsDiv(JsMul(value, dims.height), Num(100)))
                   [] OTHER -> UnknownUnitCase(str)

----------------------------------------------------------------------------
(* formatValue (formatValues.ts:3-27) *)

\* style[key]: undefined when the object has no such key.
Get(style, key) == IF key \in DOMAIN style THEN style[key] ELSE Undefined

\* `${number}${unit}`
Template(number, unit) == Str(ToStr(number) \o unit)

FormatValue(style, dims, key) ==
    LET widthValue == ParseFloat(Get(style, "width"))
        heightValue == ParseFloat(Get(style, "height"))
        unitWidth == RemoveFirst(Trim(ToStr(Get(style, "width"))), ToStr(widthValue))
        unitHeight == RemoveFirst(Trim(ToStr(Get(style, "height"))), ToStr(heightValue))
        returnValueWidth == IF unitWidth = <<>> THEN UnitPx ELSE unitWidth
        returnValueHeight == IF unitHeight = <<>> THEN UnitPx ELSE unitHeight
        somaRightLeft == JsAdd(Get(style, "marginLeft"), Get(style, "marginRight"))
        somaTopBottom == JsAdd(Get(style, "marginTop"), Get(style, "marginBottom"))
    IN IF Truthy(Get(style, "width")) /\ key = "width"
       THEN IF JsLe(widthValue, somaRightLeft)
            THEN Template(widthValue, returnValueWidth)
            ELSE Template(JsSub(widthValue,
                                JsDiv(JsMul(Num(100), somaRightLeft), dims.width)),
                          returnValueWidth)
       ELSE IF Truthy(Get(style, "height")) /\ key = "height"
       THEN IF JsLe(heightValue, somaTopBottom)
            THEN Template(heightValue, returnValueWidth)
            ELSE Template(JsSub(heightValue,
                                JsDiv(JsMul(Num(100), somaTopBottom), dims.height)),
                          returnValueHeight)
       ELSE Undefined

----------------------------------------------------------------------------
(* One call of resolveLengthUnit or of formatValue on drawn arguments *)

Chars(a, b) == {x \o y : x \in a, y \in b}

\* Length strings: white space, sign, digits, unit text, trailing white space.
LengthStrings ==
    Chars({<<>>, <<" ">>},
      Chars({<<>>, <<"-">>, <<"+">>},
        Chars({<<>>, <<"0">>, <<"2">>, <<"1", "0">>, <<"0", "4">>},
          Chars({<<>>, UnitRem, UnitPx, UnitPercent, UnitVw, UnitVh, <<"e", "m">>,
                 <<"x", "y">>, <<" ", "p", "x">>, <<"N", "a", "N">>},
                {<<>>, <<" ">>}))))

\* Arguments str of resolveLengthUnit.
LengthInputs ==
    {Str(cs) : cs \in LengthStrings} \cup {Undefined, NaN, Obj, Num(0), Num(6), Num(-4)}

\* theme.rem
RootMetrics == {Undefined, Num(0), Num(8), Num(10)}

\* windowDimensions
Viewports == {[width |-> Num(100), height |-> Num(200)],
              [width |-> Num(200), height |-> Num(100)]}

\* Declared width / height values.
DimensionValues == {Undefined, Num(0), Num(4), Num(50), Str(<<"4", "p", "x">>),
                    Str(<<"5", "0", "%">>)}

\* Margin values: absent, numbers, a percentage string.
MarginValues == {Undefined, Num(0), Num(4), Num(6), Str(<<"4", "%">>)}

\* A style object: a function from the keys present to their values.
StyleOf(w, h, ml, mr, mt, mb) ==
    LET all == [k \in {"width", "height", "marginLeft", "marginRight", "marginTop",
                      "marginBottom"} |->
                  CASE k = "width" -> w [] k = "height" -> h
                    [] k = "marginLeft" -> ml [] k = "marginRight" -> mr
                    [] k = "marginTop" -> mt [] k = "marginBottom" -> mb]
    IN [k \in {x \in DOMAIN all : all[x] # Undefined} |-> all[k]]

FormatStyles ==
    {StyleOf(w, h, ml, mr, mt, mb) :
        w \in DimensionValues, h \in DimensionValues,
        ml \in MarginValues, mr \in MarginValues, mt \in MarginValues, mb \in MarginValues}

NoRegistry ==
    /\ currentColorId = 1
    /\ hexForVarName = EmptyMap
    /\ nameForHex = EmptyMap
    /\ hashCount = 0

FunctionsInit ==
    /\ \/ \E str \in LengthInputs, rem \in RootMetrics, dims \in Viewports :
             fnArgs = [fn |-> "resolveLengthUnit", str |-> str, rem |-> rem,
                       style |-> <<>>, dims |-> dims, key |-> "none"]
       \/ \E style \in FormatStyles, dims \in Viewports, key \in {"width", "height"} :
             fnArgs = [fn |-> "formatValue", str |-> Undefined, rem |-> Undefined,
                       style |-> style, dims |-> dims, key |-> key]
    /\ fnOut = <<>>
    /\ fnDone = FALSE
    /\ NoRegistry
    /\ NoCalls
    /\ NoPass

\* resolveLengthUnit(str, theme, windowDimensions)
CallResolveLengthUnit ==
    /\ ~fnDone
    /\ fnArgs.fn = "resolveLengthUnit"
    /\ fnOut' = ResolveLengthUnit(fnArgs.str, fnArgs.rem, fnArgs.dims)
    /\ fnDone' = TRUE
    /\ UNCHANGED <<fnArgs, registryVars, callVars, passVars>>

\* formatValue(style, dimensions, key)
CallFormatValue ==
    /\ ~fnDone
    /\ fnArgs.fn = "formatValue"
    /\ fnOut' = Returns(FormatValue(fnArgs.style, fnArgs.dims, fnArgs.key))
    /\ fnDone' = TRUE
    /\ UNCHANGED <<fnArgs, registryVars, callVars, passVars>>

FunctionsNext == CallResolveLengthUnit \/ CallFormatValue

SpecFunctions == FunctionsInit /\ [][FunctionsNext]_vars

----------------------------------------------------------------------------
(* Claims about resolveLengthUnit and formatValue *)

\* A call of resolveLengthUnit on a string has been made.
LengthCallDone == fnDone /\ fnArgs.fn = "resolveLengthUnit" /\ IsStr(fnArgs.str)

\* The magnitude and the unit text the call parses from its string.
Magnitude == ParseFloat(fnArgs.str)
ParsedUnit == UnitText(fnArgs.str, Magnitude)

KnownUnits == {UnitRem, UnitPx, UnitPercent, UnitVw, UnitVh}

\* The root metric, replaced by 8 when it is zero or falsy.
EffectiveRem == IF Truthy(fnArgs.rem) THEN fnArgs.rem.n ELSE DefaultRem

\* C5: for every non-zero magnitude m and every theme, resolveLengthUnit of m
\* followed by 'rem' returns m times the root metric, a zero or falsy root
\* metric being replaced by 8 before multiplying.
C5_RemTimesRootMetric ==
    (LengthCallDone /\ IsNum(Magnitude) /\ Magnitude.n # 0 /\ ParsedUnit = UnitRem)
        => fnOut = Returns(Num(Magnitude.n * EffectiveRem))

\* C6 (as claimed): resolveLengthUnit throws for every string whose magnitude is
\* non-zero and whose unit text is none of rem, px, %, vw, vh (no unit text
\* included), and returns the number 0 for every input of magnitude 0.
C6_AsClaimed ==
    /\ (LengthCallDone /\ Magnitude # Num(0) /\ ParsedUnit \notin KnownUnits) => ~fnOut.ok
    /\ (LengthCallDone /\ Magnitude = Num(0)) => fnOut = Returns(Num(0))
    /\ (fnDone /\ fnArgs.fn = "resolveLengthUnit" /\ fnArgs.str = Num(0))
          => fnOut = Returns(Num(0))

\* C6 (amended): resolveLengthUnit throws for every non-empty string whose
\* magnitude is non-zero (not a number included) and whose unit text is none of
\* rem, px, %, vw, vh (no unit text included); the empty string is returned
\* unchanged; every input of magnitude 0 returns the number 0.
C6_UnknownUnitFails ==
    /\ (LengthCallDone /\ fnArgs.str.s # <<>> /\ Magnitude # Num(0)
          /\ ParsedUnit \notin KnownUnits) => ~fnOut.ok
    /\ (LengthCallDone /\ fnArgs.str.s = <<>>) => fnOut = Returns(fnArgs.str)
    /\ (LengthCallDone /\ Magnitude = Num(0)) => fnOut = Returns(Num(0))
    /\ (fnDone /\ fnArgs.fn = "resolveLengthUnit" /\ fnArgs.str = Num(0))
          => fnOut = Returns(Num(0))

\* C6 witness: a call on a string of non-zero magnitude followed by an unknown
\* unit has thrown.
C6_Witness ==
    /\ LengthCallDone
    /\ Magnitude = Num(2)
    /\ ParsedUnit = <<"x", "y">>
    /\ fnOut = Throws("unknown unit")

\* A call of formatValue for a dimension that is present and truthy has been made.
FormatCallDone ==
    fnDone /\ fnArgs.fn = "formatValue" /\ Truthy(Get(fnArgs.style, fnArgs.key))

\* The declared dimension's magnitude and its own unit ('px' when it has none).
OwnMagnitude == ParseFloat(Get(fnArgs.style, fnArgs.key))
OwnUnit ==
    LET unit == RemoveFirst(Trim(ToStr(Get(fnArgs.style, fnArgs.key))), ToStr(OwnMagnitude))
    IN IF unit = <<>> THEN UnitPx ELSE unit

\* marginLeft+marginRight for width, marginTop+marginBottom for height.
RelevantMargins ==
    IF fnArgs.key = "width" THEN {"marginLeft", "marginRight"} ELSE {"marginTop", "marginBottom"}
MarginSum ==
    IF fnArgs.key = "width"
    THEN JsAdd(Get(fnArgs.style, "marginLeft"), Get(fnArgs.style, "marginRight"))
    ELSE JsAdd(Get(fnArgs.style, "marginTop"), Get(fnArgs.style, "marginBottom"))

\* C7: when the declared dimension's magnitude is at most the relevant margin
\* sum, formatValue returns that magnitude followed by that dimension's own
\* unit, whatever the unit of the other dimension.
C7_MarginDominance ==
    (FormatCallDone /\ JsLe(OwnMagnitude, MarginSum))
        => fnOut = Returns(Template(OwnMagnitude, OwnUnit))

\* The style with the absent relevant margins set to 0.
ZeroFilled(style) ==
    [k \in DOMAIN style \cup RelevantMargins |-> IF k \in DOMAIN style THEN style[k] ELSE Num(0)]

\* C8: with a truthy width (or height) and any of the two relevant margins
\* absent, formatValue returns what it returns with the absent margins set to 0,
\* and the magnitude of the result is never NaN.
C8_MissingMarginIsZero ==
    (FormatCallDone /\ IsNum(OwnMagnitude))
        => /\ fnOut = Returns(FormatValue(ZeroFilled(fnArgs.style), fnArgs.dims, fnArgs.key))
           /\ ParseFloat(fnOut.v) # NaN

----------------------------------------------------------------------------
(* The theme and findNestedObj (theme.tsx:172-184) *)

\* A theme is a tree: an object is a sequence of entries [k, v] in property
\* order; a leaf carries a primitive value; theme.elevation is a function.
ObjNode(entries) == [kind |-> "obj", entries |-> entries, value |-> Undefined]
Leaf(v) == [kind |-> "leaf", entries |-> <<>>, value |-> v]
FnNode == [kind |-> "fn", entries |-> <<>>, value |-> Undefined]
NoNode == [kind |-> "none", entries |-> <<>>, value |-> Undefined]
Entry(k, v) == [k |-> k, v |-> v]

KeyRem == <<"r", "e", "m">>
KeySizes == <<"s", "i", "z", "e", "s">>
KeyColors == <<"c", "o", "l", "o", "r", "s">>
KeyElevation == <<"e", "l", "e", "v", "a", "t", "i", "o", "n">>
KeyLength == <<"l", "e", "n", "g", "t", "h">>

\* The values JSON.stringify hands to its replacer, in order: the value itself,
\* then, for an object, the values under each of its properties in turn, each
\* followed by its own properties (depth first).
RECURSIVE Visit(_)
RECURSIVE VisitEntries(_)
Visit(node) ==
    <<node>> \o (IF node.kind = "obj" THEN VisitEntries(node.entries) ELSE <<>>)
VisitEntries(entries) ==
    IF entries = <<>> THEN <<>> ELSE Visit(Head(entries).v) \o VisitEntries(Tail(entries))

\* The node as a JavaScript value: objects and functions are truthy.
NodeValue(node) ==
    CASE node.kind = "leaf" -> node.value
      [] node.kind = "none" -> Undefined
      [] OTHER -> Obj

\* The number of declared parameters of elevation: (value: number) => Style.
ElevationArity == 1

\* nestedValue[keyToFind]: an own property of an object; of the properties a
\* primitive or a function has by itself, 'length' (the number of characters of
\* a string, the number of parameters of a function).
PropertyOf(node, key) ==
    CASE node.kind = "obj" ->
            IF \E i \in 1..Len(node.entries) : node.entries[i].k = key
            THEN NodeValue(node.entries[CHOOSE i \in 1..Len(node.entries) :
                                            node.entries[i].k = key].v)
            ELSE Undefined
      [] node.kind = "leaf" /\ IsStr(node.value) /\ key = KeyLength -> Num(Len(node.value.s))
      [] node.kind = "fn" /\ key = KeyLength -> Num(ElevationArity)
      [] OTHER -> Undefined

\* if (nestedValue && nestedValue[keyToFind])
Matches(node, key) == Truthy(NodeValue(node)) /\ Truthy(PropertyOf(node, key))

\* A search that keeps the first match instead of the last.
RECURSIVE FirstMatch(_, _)
FirstMatch(nodes, key) ==
    IF nodes = <<>> THEN NoNode
    ELSE IF Matches(Head(nodes), key) THEN Head(nodes)
    ELSE FirstMatch(Tail(nodes), key)
FindNestedObjFirst(entireObj, keyToFind) == FirstMatch(Visit(entireObj), keyToFind)

\* The replacer, applied to the visited values in order: every match overwrites foundObj.
RECURSIVE Replace(_, _, _)
Replace(nodes, key, foundObj) ==
    IF nodes = <<>> THEN foundObj
    ELSE Replace(Tail(nodes), key, IF Matches(Head(nodes), key) THEN Head(nodes) ELSE foundObj)

FindNestedObj(entireObj, keyToFind) == Replace(Visit(entireObj), keyToFind, NoNode)

----------------------------------------------------------------------------
(* resolveThemeVariables (theme.tsx:186-263) *)

\* The classification sets of attribute-sets.ts, restricted to the keys used here.
ColorAttributes == {"color", "backgroundColor", "shadowColor"}
LengthAttributes == {"width", "height", "marginLeft", "marginRight", "marginTop",
                     "marginBottom", "shadowRadius"}

\* theme.elevation(level): the shadow style of the themes used here.
ElevationStyle(level) == [k \in {"shadowRadius"} |-> level]

\* Map.prototype.get on nameForHex; '' stands for undefined (both are falsy).
NameForHexGet(key) == IF key \in DOMAIN nameForHex THEN nameForHex[key] ELSE <<>>

Failure(kind, name) == [kind |-> kind, name |-> name]
NoError == Failure("none", <<>>)

Outcome(style, err) == [style |-> style, err |-> err]

\* styleObject[key] = value
Assign(style, key, value) ==
    [k \in DOMAIN style \cup {key} |-> IF k = key THEN value ELSE style[k]]

\* theme.tsx:193-200: the shadow style of the elevation is merged into the object.
ExpandElevation(style, key) ==
    IF key = "elevation" /\ Truthy(PropertyOf(theme, KeyElevation))
    THEN LET shadow == ElevationStyle(style[key])
         IN [k \in DOMAIN style \cup DOMAIN shadow |->
                IF k \in DOMAIN shadow THEN shadow[k] ELSE style[k]]
    ELSE style

\* theme.tsx:202: delete styleObject.cursor off the web.
FilterCursor(style, key) ==
    IF key = "cursor" /\ ~plattformIsWeb
    THEN [k \in DOMAIN style \ {"cursor"} |-> style[k]]
    ELSE style

\* theme.tsx:209-219 and 228-235: the placeholder's variable is looked up in the
\* theme and its value substituted, or the pass throws.
Substitute(style, key, nameVariables, kind) ==
    IF nameVariables = <<>> THEN Outcome(style, NoError)
    ELSE LET findSize == FindNestedObj(theme, nameVariables)
         IN IF Truthy(NodeValue(findSize)) /\ Truthy(PropertyOf(findSize, nameVariables))
            THEN Outcome(Assign(style, key, PropertyOf(findSize, nameVariables)), NoError)
            ELSE Outcome(style, Failure(kind, nameVariables))

\* theme.tsx:204-220
ResolveColor(style, key) ==
    IF key \in ColorAttributes
    THEN Substitute(style, key,
                    IF IsStr(Get(style, key)) THEN NameForHexGet(Get(style, key).s) ELSE <<>>,
                    "undefined color variable")
    ELSE Outcome(style, NoError)

\* theme.tsx:222-245.  No value drawn starts with calc, max or min, so the
\* evaluator of lines 239-242 is never entered.
ResolveLength(style, key) ==
    IF key \in LengthAttributes
    THEN LET sub == Substitute(style, key,
                               NameForHexGet(ToStr(Get(style, key)) \o UnitPx),
                               "undefined variable")
             out == ResolveLengthUnit(Get(sub.style, key), PropertyOf(theme, KeyRem),
                                      windowDimensions)
         IN IF sub.err # NoError THEN sub
            ELSE IF ~out.ok THEN Outcome(sub.style, Failure(out.err, <<>>))
            ELSE Outcome(Assign(sub.style, key, out.v), NoError)
    ELSE Outcome(style, NoError)

\* One iteration of the for-in loop, for the key at idx.
LoopBody(style, key) ==
    LET afterColor == ResolveColor(FilterCursor(ExpandElevation(style, key), key), key)
    IN IF afterColor.err # NoError THEN afterColor ELSE ResolveLength(afterColor.style, key)

ResolveProperty ==
    /\ phase = "loop"
    /\ idx <= Len(styleKeys)
    /\ LET out == LoopBody(styleObject, styleKeys[idx])
       IN /\ styleObject' = out.style
          /\ error' = out.err
          /\ phase' = IF out.err # NoError THEN "failed" ELSE "loop"
          /\ idx' = IF out.err # NoError THEN idx ELSE idx + 1
    /\ UNCHANGED <<styleKeys, theme, windowDimensions, plattformIsWeb, recomputed, original,
                   registryVars, callVars, fnVars>>

\* value || undefined
OrUndefined(v) == IF Truthy(v) THEN v ELSE Undefined

\* The test of theme.tsx:253: marginLeft && marginRight & marginTop & marginBottom
MarginsPresent(style) ==
    LET marginLeft == OrUndefined(Get(style, "marginLeft"))
        marginRight == OrUndefined(Get(style, "marginRight"))
        marginTop == OrUndefined(Get(style, "marginTop"))
        marginBottom == OrUndefined(Get(style, "marginBottom"))
    IN Truthy(marginLeft) /\ Truthy(JsBitAnd(JsBitAnd(marginRight, marginTop), marginBottom))

\* theme.tsx:248-262: after the loop, the margin test and the recomputation.
RecomputeDimensions ==
    /\ phase = "loop"
    /\ idx > Len(styleKeys)
    /\ IF MarginsPresent(styleObject)
       THEN LET widthValue == FormatValue(styleObject, windowDimensions, "width")
                heightValue == FormatValue(styleObject, windowDimensions, "height")
                w == ResolveLengthUnit(widthValue, PropertyOf(theme, KeyRem), windowDimensions)
                h == ResolveLengthUnit(heightValue, PropertyOf(theme, KeyRem), windowDimensions)
            IN /\ recomputed' = TRUE
               /\ IF ~w.ok
                  THEN /\ styleObject' = styleObject
                       /\ error' = Failure(w.err, <<>>)
                       /\ phase' = "failed"
                  ELSE IF ~h.ok
                  THEN /\ styleObject' = Assign(styleObject, "width", w.v)
                       /\ error' = Failure(h.err, <<>>)
                       /\ phase' = "failed"
                  ELSE /\ styleObject' = Assign(Assign(styleObject, "width", w.v), "height", h.v)
                       /\ error' = error
                       /\ phase' = "done"
       ELSE /\ recomputed' = FALSE
            /\ styleObject' = styleObject
            /\ error' = error
            /\ phase' = "done"
    /\ UNCHANGED <<styleKeys, idx, theme, windowDimensions, plattformIsWeb, original,
                   registryVars, callVars, fnVars>>

----------------------------------------------------------------------------
(* The inputs of a pass *)

NameA == <<"$", "a">>
NameB == <<"$", "b">>
NameLength == <<"$", "l", "e", "n", "g", "t", "h">>
NameS == <<"$", "s">>
NameU == <<"$", "u">>

\* The registry after resolveColorVariablePlaceholder('$a'), ('$b'), ('$length'),
\* resolverLengsVariables('$s') and ('$u'), called in that order.
PassHexForVarName ==
    MapSet(MapSet(MapSet(MapSet(MapSet(EmptyMap,
        NameA, ColorHash(1)), NameB, ColorHash(2)), NameLength, ColorHash(3)),
        NameS, HashGenerate(0)), NameU, HashGenerate(1))
PassNameForHex ==
    MapSet(MapSet(MapSet(MapSet(MapSet(EmptyMap,
        ColorHash(1), Substring1(NameA)), ColorHash(2), Substring1(NameB)),
        ColorHash(3), Substring1(NameLength)),
        HashGenerate(0), Substring1(NameS)), HashGenerate(1), Substring1(NameU))

SLeaf(cs) == Leaf(Str(cs))

\* { rem: 8, sizes: { s: '2rem', a: '4px' }, colors: { a: 'red', b: 'blue' }, elevation }
ThemeSizesFirst ==
    ObjNode(<<Entry(KeyRem, Leaf(Num(8))),
              Entry(KeySizes, ObjNode(<<Entry(<<"s">>, SLeaf(<<"2", "r", "e", "m">>)), Entry(<<"a">>, SLeaf(<<"4", "p", "x">>))>>)),
              Entry(KeyColors, ObjNode(<<Entry(<<"a">>, SLeaf(<<"r", "e", "d">>)), Entry(<<"b">>, SLeaf(<<"b", "l", "u", "e">>))>>)),
              Entry(KeyElevation, FnNode)>>)

\* { rem: 10, colors: { a: 'red', b: 'blue' }, sizes: { a: '4px', s: '6px' } }
ThemeColorsFirst ==
    ObjNode(<<Entry(KeyRem, Leaf(Num(10))),
              Entry(KeyColors, ObjNode(<<Entry(<<"a">>, SLeaf(<<"r", "e", "d">>)), Entry(<<"b">>, SLeaf(<<"b", "l", "u", "e">>))>>)),
              Entry(KeySizes, ObjNode(<<Entry(<<"a">>, SLeaf(<<"4", "p", "x">>)), Entry(<<"s">>, SLeaf(<<"6", "p", "x">>))>>))>>)

\* { rem: 0, sizes: { s: '4px', wide: { s: '6px' } },
\*   colors: { a: 'red', dark: { a: 'black' }, b: '' } }
ThemeNested ==
    ObjNode(<<Entry(KeyRem, Leaf(Num(0))),
              Entry(KeySizes, ObjNode(<<Entry(<<"s">>, SLeaf(<<"4", "p", "x">>)),
                                        Entry(<<"w", "i", "d", "e">>, ObjNode(<<Entry(<<"s">>, SLeaf(<<"6", "p", "x">>))>>))>>)),
              Entry(KeyColors, ObjNode(<<Entry(<<"a">>, SLeaf(<<"r", "e", "d">>)),
                                         Entry(<<"d", "a", "r", "k">>, ObjNode(<<Entry(<<"a">>, SLeaf(<<"b", "l", "a", "c", "k">>))>>)),
                                         Entry(<<"b">>, SLeaf(<<>>))>>))>>)

\* { rem: 8, sizes: {}, colors: {} }
ThemeEmpty ==
    ObjNode(<<Entry(KeyRem, Leaf(Num(8))),
              Entry(KeySizes, ObjNode(<<>>)),
              Entry(KeyColors, ObjNode(<<>>))>>)

\* { rem: 8, sizes: { s: 6 }, colors: { b: 'blue' }, elevation }
ThemeNumeric ==
    ObjNode(<<Entry(KeyRem, Leaf(Num(8))),
              Entry(KeySizes, ObjNode(<<Entry(<<"s">>, Leaf(Num(6)))>>)),
              Entry(KeyColors, ObjNode(<<Entry(<<"b">>, SLeaf(<<"b", "l", "u", "e">>))>>)),
              Entry(KeyElevation, FnNode)>>)

Themes == {ThemeSizesFirst, ThemeColorsFirst, ThemeNested, ThemeEmpty, ThemeNumeric}

\* Values of the color property: a literal, the placeholders of $a, $b and
\* $length, and a hex color that is no placeholder.
ColorValues == {Undefined, Str(<<"r", "e", "d">>), Str(ColorHash(1)), Str(ColorHash(2)),
                Str(ColorHash(3)), Str(ColorHash(9))}

\* Values of width: literals and the placeholders of $s and $u as the style
\* compiler leaves them (the token without its px).
WidthValues == {Undefined, Num(50), Str(<<"5", "0", "%">>), Num(771), Num(772)}

HeightValues == {Undefined, Num(4)}

PassMarginValues == {Undefined, Num(4), Num(6), Str(<<"2", "p", "x">>)}

\* The order of the keys of a style object, and its reverse.
KeyOrder == <<"elevation", "cursor", "color", "marginLeft", "marginRight", "marginTop",
              "marginBottom", "width", "height">>
Reverse(seq) == [i \in 1..Len(seq) |-> seq[Len(seq) + 1 - i]]

RECURSIVE Present(_, _)
Present(keys, style) ==
    IF keys = <<>> THEN <<>>
    ELSE (IF Head(keys) \in DOMAIN style THEN <<Head(keys)>> ELSE <<>>)
            \o Present(Tail(keys), style)

\* A style object of up to nine properties; absent ones are left out.
PassStyle(color, extras, w, h, m) ==
    LET all == [k \in {"elevation", "cursor", "color", "marginLeft", "marginRight",
                      "marginTop", "marginBottom", "width", "height"} |->
                  CASE k = "elevation" -> IF extras THEN Num(2) ELSE Undefined
                    [] k = "cursor" -> IF extras THEN Str(<<"p", "o", "i", "n", "t", "e", "r">>) ELSE Undefined
                    [] k = "color" -> color
                    [] k = "width" -> w [] k = "height" -> h
                    [] k = "marginLeft" -> m[1] [] k = "marginRight" -> m[2]
                    [] k = "marginTop" -> m[3] [] k = "marginBottom" -> m[4]]
    IN [k \in {x \in DOMAIN all : all[x] # Undefined} |-> all[k]]

\* Margins of the styles that vary the color and the width.
FewMargins == {<<Undefined, Undefined, Undefined, Undefined>>,
               <<Num(4), Num(4), Num(4), Num(4)>>,
               <<Num(4), Num(4), Str(<<"2", "p", "x">>), Num(4)>>,
               <<Num(6), Str(<<"4", "%">>), Num(6), Num(6)>>}

PassInit ==
    /\ \/ \E color \in ColorValues, extras \in BOOLEAN, w \in WidthValues,
             h \in HeightValues, m \in FewMargins, t \in Themes,
             web \in BOOLEAN, forward \in BOOLEAN :
             /\ styleObject = PassStyle(color, extras, w, h, m)
             /\ styleKeys = Present(IF forward THEN KeyOrder ELSE Reverse(KeyOrder), styleObject)
             /\ theme = t
             /\ plattformIsWeb = web
             /\ windowDimensions = [width |-> Num(100), height |-> Num(200)]
       \/ \E w \in {Undefined, Num(50), Str(<<"5", "0", "%">>)}, h \in HeightValues,
             m \in PassMarginValues \X PassMarginValues \X PassMarginValues \X PassMarginValues,
             dims \in Viewports :
             /\ styleObject = PassStyle(Undefined, FALSE, w, h, m)
             /\ styleKeys = Present(KeyOrder, styleObject)
             /\ theme = ThemeSizesFirst
             /\ plattformIsWeb = TRUE
             /\ windowDimensions = dims
    /\ original = styleObject
    /\ idx = 1
    /\ phase = "loop"
    /\ error = NoError
    /\ recomputed = FALSE
    /\ currentColorId = 4
    /\ hexForVarName = PassHexForVarName
    /\ nameForHex = PassNameForHex
    /\ hashCount = 2
    /\ NoCalls
    /\ NoFn

PassNext == ResolveProperty \/ RecomputeDimensions

\* One pass of resolveThemeVariables over a drawn style object, theme and viewport.
SpecResolve == PassInit /\ [][PassNext]_vars

----------------------------------------------------------------------------
(* Claims about resolveThemeVariables *)

MarginKeys == {"marginLeft", "marginRight", "marginTop", "marginBottom"}

\* C4: after the per-property pass, width and height are recomputed if and only
\* if marginLeft, marginRight, marginTop and marginBottom are all present and
\* truthy; four non-zero numeric margins always trigger the recomputation.
C4_RecomputeIffAllMargins ==
    (phase = "done" \/ recomputed)
        => (recomputed <=> \A k \in MarginKeys : Truthy(Get(styleObject, k)))

\* The loop is about to visit a key.
AtKey == phase = "loop" /\ idx <= Len(styleKeys)
CurrentKey == styleKeys[idx]

\* The variable behind the placeholder the current property holds: '' when the
\* property is no color or length property or holds no registered placeholder.
PlaceholderName ==
    LET v == Get(styleObject, CurrentKey)
    IN IF CurrentKey \in ColorAttributes /\ IsStr(v) /\ v.s \in DOMAIN nameForHex
       THEN nameForHex[v.s]
       ELSE IF CurrentKey \in LengthAttributes /\ (ToStr(v) \o UnitPx) \in DOMAIN nameForHex
       THEN nameForHex[ToStr(v) \o UnitPx]
       ELSE <<>>

\* The positions, in the depth-first traversal of the theme, of the mappings
\* that have the name as a key.
KeyedMappings(name) ==
    LET trav == Visit(theme)
    IN {i \in 1..Len(trav) :
          /\ trav[i].kind = "obj"
          /\ \E j \in 1..Len(trav[i].entries) : trav[i].entries[j].k = name}

\* C9: when the pass reaches a color or length property holding a registered
\* placeholder whose variable is a key of none of the theme's mappings, it fails
\* with an error naming the variable; once failed, no property is modified any
\* more and the width/height recomputation does not run.
C9_FailFast ==
    [][/\ (AtKey /\ PlaceholderName # <<>> /\ KeyedMappings(PlaceholderName) = {})
            => /\ phase' = "failed"
               /\ error'.name = PlaceholderName
               /\ styleObject' = styleObject
       /\ phase = "failed" => (styleObject' = styleObject /\ ~recomputed')]_vars

\* The positions of the visited values whose property of that name is truthy.
TruthyAt(name) ==
    LET trav == Visit(theme)
    IN {i \in 1..Len(trav) : Matches(trav[i], name)}

Least(S) == CHOOSE i \in S : \A j \in S : i <= j
Greatest(S) == CHOOSE i \in S : \A j \in S : i >= j

\* The step substitutes value for the placeholder of the current property: a
\* color is stored as it is, a length goes through resolveLengthUnit first.
SubstitutesValue(value) ==
    IF CurrentKey \in ColorAttributes
    THEN phase' = "loop" /\ styleObject'[CurrentKey] = value
    ELSE LET out == ResolveLengthUnit(value, PropertyOf(theme, KeyRem), windowDimensions)
         IN IF out.ok THEN phase' = "loop" /\ styleObject'[CurrentKey] = out.v
            ELSE phase' = "failed" /\ error'.kind = out.err

\* C10 (as claimed): when the variable is a key of more than one mapping of the
\* theme, the substituted value is taken from the first such mapping of the
\* depth-first traversal.
C10_AsClaimed ==
    [][(AtKey /\ PlaceholderName # <<>> /\ Cardinality(KeyedMappings(PlaceholderName)) > 1)
          => SubstitutesValue(PropertyOf(Visit(theme)[Least(KeyedMappings(PlaceholderName))],
                                         PlaceholderName))]_vars

\* C10 (amended): when the variable is a key of more than one mapping of the
\* theme, the substituted value is the variable's property of the last value the
\* depth-first traversal visits for which that property is truthy, and the pass
\* fails with the undefined-variable error when there is no such value.
C10_LastMatchWins ==
    [][(AtKey /\ PlaceholderName # <<>> /\ Cardinality(KeyedMappings(PlaceholderName)) > 1)
          => IF TruthyAt(PlaceholderName) = {}
             THEN phase' = "failed" /\ error'.name = PlaceholderName
             ELSE SubstitutesValue(PropertyOf(Visit(theme)[Greatest(TruthyAt(PlaceholderName))],
                                              PlaceholderName))]_vars

\* C10 witness: the color property held the placeholder of $a, which both the
\* size mapping and, after it, the color mapping define; the pass has put the
\* color mapping's value in its place.
C10_Witness ==
    /\ theme = ThemeSizesFirst
    /\ "color" \in DOMAIN original /\ original["color"] = Str(ColorHash(1))
    /\ phase = "done"
    /\ styleObject["color"] = Str(<<"r", "e", "d">>)

====
